---- MODULE Spec2Model ----
(***************************************************************************)
(* A model of packages/webpack-plugin/src/index.ts: the webpack plugin     *)
(* WebUpdateNotificationPlugin, its two HTML injection functions and its   *)
(* two compiler hooks (emit, afterEmit).                                   *)
(*                                                                         *)
(* Text is a sequence of tokens (strings).  A token stands for a run of    *)
(* characters that the program never splits: the literal markers the code  *)
(* searches for, the fixed pieces of the templates the code writes, the    *)
(* four replacement patterns of String.prototype.replace, and opaque runs  *)
(* of other text.  The entry HTML of the host is made of <head>, </body>   *)
(* and opaque text; the elements the plugin writes have tokens of their    *)
(* own, so that they can be told from the markup of the host.              *)
(*                                                                         *)
(* The host (webpack) calls the emit hook once per build on a fresh        *)
(* compilation, writes the assets of the compilation to the output         *)
(* directory, and then calls the afterEmit hook.  It may write the entry   *)
(* HTML it generates or leave the file of the previous build in place.     *)
(* The options, the version, the bundled templates, the HTML of the host   *)
(* and the access mode of the HTML file are chosen once per run.           *)
(***************************************************************************)
EXTENDS Integers, Sequences, FiniteSets, TLC

(***************************************************************************)
(* Bounds of the model.                                                    *)
(***************************************************************************)
MaxBuilds == 2
MaxHtmlLen == 2

(***************************************************************************)
(* Tokens.                                                                 *)
(***************************************************************************)
HEAD == "<head>"
BODY_CLOSE == "</body>"
TEXT == "text"
WS_LINKED == "\n    "
WS_INLINE == "\n        "
LINK_OPEN == "<link rel=\"stylesheet\" href=\""
LINK_CLOSE == "\">"
SCRIPT_SRC_OPEN == "<script src=\""
SCRIPT_SRC_CLOSE == "\"></script>"
STYLE_OPEN == "<style>"
STYLE_CLOSE == "</style>"
SCRIPT_OPEN == "<script>"
SCRIPT_CLOSE == "</script>"
VERSION_OPEN == "<script>window.pluginWebUpdateNotice_version = '"
VERSION_CLOSE == "';</script>"
CSS_EXT == ".css"
JS_EXT == ".js"
JSON_EXT == ".json"

pluginName == "WebUpdateNotificationPlugin"

\* imported from @plugin-web-update-notification/core
DIRECTORY_NAME == "DIRECTORY_NAME"
INJECT_STYLE_FILE_NAME == "INJECT_STYLE_FILE_NAME"
INJECT_SCRIPT_FILE_NAME == "INJECT_SCRIPT_FILE_NAME"
JSON_FILE_NAME == "JSON_FILE_NAME"
NOTIFICATION_ANCHOR_CLASS_NAME == "NOTIFICATION_ANCHOR_CLASS_NAME"

\* <div class="${NOTIFICATION_ANCHOR_CLASS_NAME}"></div>
AnchorHtml == <<"<div class=\"", NOTIFICATION_ANCHOR_CLASS_NAME, "\"></div>">>

(***************************************************************************)
(* Sequence helpers.                                                       *)
(***************************************************************************)
Min(S) == CHOOSE x \in S : \A y \in S : x <= y

\* all sequences over S of length at most n
SeqsUpTo(S, n) == UNION {[1..k -> S] : k \in 0..n}

\* the positions at which needle occurs in s as a contiguous run
Occurrences(needle, s) ==
    {i \in 1..(Len(s) - Len(needle) + 1) :
        SubSeq(s, i, i + Len(needle) - 1) = needle}

Contains(s, needle) == Occurrences(needle, s) # {}

Count(s, needle) == Cardinality(Occurrences(needle, s))

\* String.prototype.indexOf for a one-token pattern; 0 when absent
IndexOf(str, pat) ==
    IF \E i \in 1..Len(str) : str[i] = pat
    THEN Min({i \in 1..Len(str) : str[i] = pat})
    ELSE 0

(***************************************************************************)
(* String.prototype.replace(pattern: string, replacement: string).         *)
(* Only the first occurrence of the pattern is replaced, and the           *)
(* replacement is not inserted verbatim: GetSubstitution expands           *)
(* $$ to $, $& to the matched text, $ backtick to the text before the      *)
(* match and $ apostrophe to the text after the match.  ($n and $<name>    *)
(* stay literal, a string pattern has no captures.)                        *)
(***************************************************************************)
DOLLAR_DOLLAR == "$$"
DOLLAR_AMP == "$&"
DOLLAR_BEFORE == "$[backtick]"
DOLLAR_AFTER == "$[apostrophe]"

RECURSIVE GetSubstitution(_, _, _, _)
GetSubstitution(matched, before, after, replacement) ==
    IF replacement = <<>> THEN <<>>
    ELSE LET t == Head(replacement)
             e == CASE t = DOLLAR_DOLLAR -> <<"$">>
                    [] t = DOLLAR_AMP -> <<matched>>
                    [] t = DOLLAR_BEFORE -> before
                    [] t = DOLLAR_AFTER -> after
                    [] OTHER -> <<t>>
         IN  e \o GetSubstitution(matched, before, after, Tail(replacement))

Replace(str, pat, replacement) ==
    LET i == IndexOf(str, pat) IN
    IF i = 0 THEN str
    ELSE LET before == SubSeq(str, 1, i - 1)
             after == SubSeq(str, i + 1, Len(str))
         IN  before \o GetSubstitution(pat, before, after, replacement) \o after

(***************************************************************************)
(* @plugin-web-update-notification/core (imported, not part of the file).  *)
(***************************************************************************)
\* a short digest of the content; distinct contents get distinct digests,
\* and the digest of the empty content is not the empty string
getFileHash(content) == ToString(content)

\* the manifest { version, silence }
generateJSONFileContent(version_, silence) ==
    <<"{\"version\":\"">> \o version_ \o
    <<"\",\"silence\":", IF silence THEN "true" ELSE "false", "}">>

VERSION_PLACEHOLDER == "__VERSION__"
OPTIONS_PLACEHOLDER == "__OPTIONS__"

\* every occurrence of a placeholder token replaced by a value, verbatim
RECURSIVE Substitute(_, _, _)
Substitute(template, placeholder, value) ==
    IF template = <<>> THEN <<>>
    ELSE (IF Head(template) = placeholder THEN value ELSE <<Head(template)>>)
         \o Substitute(Tail(template), placeholder, value)

\* the script template with the version and the option values substituted
generateJsFileContent(template, version_, options_) ==
    Substitute(Substitute(template, VERSION_PLACEHOLDER, version_),
               OPTIONS_PLACEHOLDER, options_.customNotificationHTML)

(***************************************************************************)
(* Paths.                                                                  *)
(***************************************************************************)
\* ${DIRECTORY_NAME}/${JSON_FILE_NAME}.json
JsonPath == <<DIRECTORY_NAME, "/", JSON_FILE_NAME, JSON_EXT>>

\* ${DIRECTORY_NAME}/${INJECT_STYLE_FILE_NAME}.${cssFileHash}.css
StylePath(hash) == <<DIRECTORY_NAME, "/", INJECT_STYLE_FILE_NAME, ".", hash, CSS_EXT>>

\* ${DIRECTORY_NAME}/${INJECT_SCRIPT_FILE_NAME}.${jsFileHash}.js
ScriptPath(hash) == <<DIRECTORY_NAME, "/", INJECT_SCRIPT_FILE_NAME, ".", hash, JS_EXT>>

\* ${get__Dirname()}/${INJECT_STYLE_FILE_NAME}.css, the bundled template
StyleTemplatePath == <<"__dirname", "/", INJECT_STYLE_FILE_NAME, CSS_EXT>>

\* resolve(${get__Dirname()}/${INJECT_SCRIPT_FILE_NAME}.js)
ScriptTemplatePath == <<"__dirname", "/", INJECT_SCRIPT_FILE_NAME, JS_EXT>>

outputPath == "outputPath"

\* a string is truthy unless it is empty (or undefined, modelled as empty)
Truthy(str) == str # <<>>

\* resolve(compiler.outputPath, indexHtmlFilePath || ./index.html)
htmlFilePath(options_) ==
    <<outputPath, "/">> \o
    (IF Truthy(options_.indexHtmlFilePath) THEN options_.indexHtmlFilePath
     ELSE <<"index.html">>)

(***************************************************************************)
(* injectPluginHtml: the linked mode.                                      *)
(***************************************************************************)
versionScript(version_) == <<VERSION_OPEN>> \o version_ \o <<VERSION_CLOSE>>

\* a variant of cssLinkHtml that forgets the hiddenDefaultNotification flag
cssLinkHtml_IgnoresHidden(options_, cssHash) ==
    IF Truthy(options_.customNotificationHTML)
    THEN <<>>
    ELSE <<LINK_OPEN>> \o options_.injectFileBase \o StylePath(cssHash) \o <<LINK_CLOSE>>

cssLinkHtml(options_, cssHash) ==
    IF Truthy(options_.customNotificationHTML) \/ options_.hiddenDefaultNotification
    THEN <<>>
    ELSE <<LINK_OPEN>> \o options_.injectFileBase \o StylePath(cssHash) \o <<LINK_CLOSE>>

\* the replacement string handed to replace(<head>, ...)
LinkedHeadReplacement(version_, options_, cssHash, jsHash) ==
    <<HEAD, WS_LINKED>> \o cssLinkHtml(options_, cssHash) \o
    <<WS_LINKED, SCRIPT_SRC_OPEN>> \o options_.injectFileBase \o ScriptPath(jsHash) \o
    <<SCRIPT_SRC_CLOSE, WS_LINKED>> \o versionScript(version_)

\* the replacement string handed to replace(</body>, ...)
AnchorReplacement == AnchorHtml \o <<BODY_CLOSE>>

\* a variant of InjectAnchor that forgets the hiddenDefaultNotification flag
InjectAnchor_IgnoresHidden(res, options_) ==
    Replace(res, BODY_CLOSE, AnchorReplacement)

\* the optional second replace of both injection functions
InjectAnchor(res, options_) ==
    IF ~options_.hiddenDefaultNotification
    THEN Replace(res, BODY_CLOSE, AnchorReplacement)
    ELSE res

LinkedHead(html, version_, options_, cssHash, jsHash) ==
    Replace(html, HEAD, LinkedHeadReplacement(version_, options_, cssHash, jsHash))

injectPluginHtml(html, version_, options_, cssHash, jsHash) ==
    InjectAnchor(LinkedHead(html, version_, options_, cssHash, jsHash), options_)

(***************************************************************************)
(* injectPluginHTMLInline: the inline (micro-app) mode.                    *)
(***************************************************************************)
pluginStyle(options_, styleContent) ==
    IF Truthy(options_.customNotificationHTML) \/ options_.hiddenDefaultNotification
    THEN <<>>
    ELSE <<STYLE_OPEN>> \o styleContent \o <<STYLE_CLOSE>>

pluginScript(scriptContent) == <<SCRIPT_OPEN>> \o scriptContent \o <<SCRIPT_CLOSE>>

InlineHeadReplacement(version_, options_, styleContent, scriptContent) ==
    <<HEAD, WS_INLINE>> \o pluginStyle(options_, styleContent) \o
    <<WS_INLINE>> \o pluginScript(scriptContent) \o
    <<WS_INLINE>> \o versionScript(version_)

InlineHead(html, version_, options_, styleContent, scriptContent) ==
    Replace(html, HEAD, InlineHeadReplacement(version_, options_, styleContent, scriptContent))

injectPluginHTMLInline(html, version_, options_, styleContent, scriptContent) ==
    InjectAnchor(InlineHead(html, version_, options_, styleContent, scriptContent), options_)

(***************************************************************************)
(* The inputs of a run: the options, the version, the bundled templates    *)
(* and the entry HTML the host generates.                                  *)
(***************************************************************************)
Versions == {<<"1.2.3">>, <<"1.2.3", DOLLAR_AMP>>}
CustomNotificationHTMLs == {<<>>, <<"custom">>}
\* [defined, value]: an option or a host setting that may be undefined
Undefined == [defined |-> FALSE, value |-> <<>>]
Defined(v) == [defined |-> TRUE, value |-> v]
UserInjectFileBases == {Undefined, Defined(<<"/cdn/">>)}
PublicPaths == {Undefined, Defined(<<"/">>)}
IndexHtmlFilePaths == {<<>>}
Silences == {FALSE}
StyleTemplates == {<<"css">>, <<"css", DOLLAR_AMP>>}
ScriptTemplates ==
    {<<"js", VERSION_PLACEHOLDER, OPTIONS_PLACEHOLDER>>,
     <<DOLLAR_AFTER, "js", DOLLAR_AMP, DOLLAR_DOLLAR, DOLLAR_BEFORE>>}
HtmlAlphabet == {HEAD, BODY_CLOSE, TEXT}
HtmlDocuments == SeqsUpTo(HtmlAlphabet, MaxHtmlLen)

\* a file of the output directory
NoFile == [exists |-> FALSE, content |-> <<>>, perm |-> "rw"]
File(content, perm) == [exists |-> TRUE, content |-> content, perm |-> perm]
Perms == {"rw", "unreadable", "readonly"}

VARIABLES
    options,              \* this.options after apply()
    version,              \* let version, set once in apply()
    jsFileHash,           \* let jsFileHash
    cssFileHash,          \* let cssFileHash
    injectScriptContent,  \* let injectScriptContent
    injectStyleContent,   \* let injectStyleContent
    assets,               \* compilation.assets of the current compilation
    templates,            \* the bundled template files under get__Dirname()
    hostHtml,             \* the entry HTML file the host generates (NoFile: none)
    disk,                 \* the output directory: [html, assets]
    log,                  \* what console.error printed
    reads,                \* the template files the last emit hook read
    finalize,             \* what the last afterEmit hook did
    pc,                   \* where the host is in its build lifecycle
    builds                \* the builds finished so far

vars == <<options, version, jsFileHash, cssFileHash, injectScriptContent,
          injectStyleContent, assets, templates, hostHtml, disk, log, reads,
          finalize, pc, builds>>

\* an asset { source, size }: source() either returns a constant captured when
\* the asset was registered or reads one of the variables of the plugin when called
ConstSource(content) == [from |-> "const", content |-> content]
VarSource(name) == [from |-> name, content |-> <<>>]

\* asset.source()
source(asset) ==
    CASE asset.from = "injectStyleContent" -> injectStyleContent
      [] asset.from = "injectScriptContent" -> injectScriptContent
      [] OTHER -> asset.content

\* what the compilation of the host holds before the hook of the plugin runs
HostAssets == [p \in {<<"main.js">>} |-> ConstSource(<<"bundle">>)]

\* a function with one more (or one overwritten) entry
Put(f, k, v) == [x \in DOMAIN f \cup {k} |-> IF x = k THEN v ELSE f[x]]

NoFinalize == [ran |-> FALSE, read |-> FALSE, input |-> <<>>,
               wrote |-> FALSE, caught |-> FALSE, propagated |-> FALSE]

\* apply(): if (this.options.injectFileBase === undefined) ...
DefaultInjectFileBase(user, publicPath) ==
    IF ~user.defined
    THEN (IF publicPath.defined THEN publicPath.value ELSE <<"/">>)
    ELSE user.value

Init ==
    /\ \E hidden \in BOOLEAN, micro \in BOOLEAN, silence \in Silences,
          custom \in CustomNotificationHTMLs, user \in UserInjectFileBases,
          publicPath \in PublicPaths, index \in IndexHtmlFilePaths :
          options = [hiddenDefaultNotification |-> hidden,
                     customNotificationHTML |-> custom,
                     injectFileBase |-> DefaultInjectFileBase(user, publicPath),
                     microApp |-> micro,
                     silence |-> silence,
                     indexHtmlFilePath |-> index]
    /\ version \in Versions
    /\ jsFileHash = ""
    /\ cssFileHash = ""
    /\ injectScriptContent = <<>>
    /\ injectStyleContent = <<>>
    /\ assets = HostAssets
    /\ \E style \in StyleTemplates, script \in ScriptTemplates :
          templates = [style |-> style, script |-> script]
    /\ hostHtml \in {NoFile} \cup {File(h, perm) : h \in HtmlDocuments, perm \in Perms}
    /\ disk = [html |-> NoFile, assets |-> << >>]
    /\ log = <<>>
    /\ reads = {}
    /\ finalize = NoFinalize
    /\ pc = "idle"
    /\ builds = 0

(***************************************************************************)
(* The host starts a build: a fresh compilation.                           *)
(***************************************************************************)
StartBuild ==
    /\ pc \in {"idle", "finalized"}
    /\ builds < MaxBuilds
    /\ pc' = "compiling"
    /\ assets' = HostAssets
    /\ UNCHANGED <<options, version, jsFileHash, cssFileHash, injectScriptContent,
                   injectStyleContent, templates, hostHtml, disk, log, reads,
                   finalize, builds>>

(***************************************************************************)
(* compiler.hooks.emit                                                     *)
(***************************************************************************)
\* a variant of EmitsStyle that registers the stylesheet unconditionally
EmitsStyle_Always(options_) == TRUE

\* a variant of ScriptHash that hashes the template before the substitution
ScriptHash_OfTemplate(template, scriptContent) == getFileHash(template)

\* if (!hiddenDefaultNotification): the stylesheet is read, hashed and registered
EmitsStyle(options_) == ~options_.hiddenDefaultNotification

\* cssFileHash = getFileHash(injectStyleContent)
StyleHash(styleContent) == getFileHash(styleContent)

\* jsFileHash = getFileHash(injectScriptContent)
ScriptHash(template, scriptContent) == getFileHash(scriptContent)

Emit ==
    /\ pc = "compiling"
    /\ LET jsonFileContent == generateJSONFileContent(version, options.silence)
           withJson == Put(assets, JsonPath, ConstSource(jsonFileContent))
           style == EmitsStyle(options)
           styleContent == IF style THEN templates.style ELSE injectStyleContent
           cssHash == IF style THEN StyleHash(styleContent) ELSE cssFileHash
           withStyle == IF style
                        THEN Put(withJson, StylePath(cssHash), VarSource("injectStyleContent"))
                        ELSE withJson
           scriptContent == generateJsFileContent(templates.script, version, options)
           jsHash == ScriptHash(templates.script, scriptContent)
       IN  /\ injectStyleContent' = styleContent
           /\ cssFileHash' = cssHash
           /\ injectScriptContent' = scriptContent
           /\ jsFileHash' = jsHash
           /\ assets' = Put(withStyle, ScriptPath(jsHash), VarSource("injectScriptContent"))
           /\ reads' = (IF style THEN {StyleTemplatePath} ELSE {}) \cup {ScriptTemplatePath}
    /\ pc' = "emitted"
    /\ UNCHANGED <<options, version, templates, hostHtml, disk, log, finalize, builds>>

(***************************************************************************)
(* The host writes the assets of the compilation to the output directory.  It   *)
(* writes the entry HTML it generates, if it generates one, or leaves the  *)
(* file of the previous build in place when it has nothing new to write.   *)
(***************************************************************************)
WrittenAssets == [p \in DOMAIN assets \cup DOMAIN disk.assets |->
                    IF p \in DOMAIN assets THEN source(assets[p]) ELSE disk.assets[p]]

HostWritesHtml ==
    /\ pc = "emitted"
    /\ hostHtml.exists
    /\ disk' = [html |-> hostHtml, assets |-> WrittenAssets]
    /\ pc' = "written"
    /\ UNCHANGED <<options, version, jsFileHash, cssFileHash, injectScriptContent,
                   injectStyleContent, assets, templates, hostHtml, log, reads,
                   finalize, builds>>

HostKeepsHtml ==
    /\ pc = "emitted"
    /\ disk' = [disk EXCEPT !.assets = WrittenAssets]
    /\ pc' = "written"
    /\ UNCHANGED <<options, version, jsFileHash, cssFileHash, injectScriptContent,
                   injectStyleContent, assets, templates, hostHtml, log, reads,
                   finalize, builds>>

(***************************************************************************)
(* compiler.hooks.afterEmit                                                *)
(***************************************************************************)
\* the two console.error calls of the catch block
ErrorLines(error, path) ==
    <<<<error>>,
      <<pluginName, " failed to inject the plugin into the HTML file. index.html(">>
        \o path \o <<") not found.">>>>

\* a variant of Inject that takes the microApp flag the wrong way round
Inject_Swapped(html) ==
    IF ~options.microApp
    THEN injectPluginHTMLInline(html, version, options, injectStyleContent, injectScriptContent)
    ELSE injectPluginHtml(html, version, options, cssFileHash, jsFileHash)

\* the injection the microApp flag selects
Inject(html) ==
    IF options.microApp
    THEN injectPluginHTMLInline(html, version, options, injectStyleContent, injectScriptContent)
    ELSE injectPluginHtml(html, version, options, cssFileHash, jsFileHash)

\* a variant of CatchBlock that lets the error go instead of logging it
CatchBlock_Rethrows(error, didRead) ==
    [disk |-> disk,
     log |-> log,
     finalize |-> [ran |-> TRUE, read |-> didRead,
                   input |-> IF didRead THEN disk.html.content ELSE <<>>,
                   wrote |-> FALSE, caught |-> FALSE, propagated |-> TRUE]]

\* catch (error): the two console.error calls; nothing is written or rethrown
CatchBlock(error, didRead) ==
    [disk |-> disk,
     log |-> log \o ErrorLines(error, htmlFilePath(options)),
     finalize |-> [ran |-> TRUE, read |-> didRead,
                   input |-> IF didRead THEN disk.html.content ELSE <<>>,
                   wrote |-> FALSE, caught |-> TRUE, propagated |-> FALSE]]

\* the hook with its try/catch: [disk, log, finalize] after it
AfterEmitResult ==
    LET file == disk.html
    IN  CASE ~file.exists -> CatchBlock("ENOENT", FALSE)
          [] file.exists /\ file.perm = "unreadable" -> CatchBlock("EACCES", FALSE)
          [] file.exists /\ file.perm = "readonly" -> CatchBlock("EACCES", TRUE)
          [] OTHER ->
                [disk |-> [disk EXCEPT !.html.content = Inject(file.content)],
                 log |-> log,
                 finalize |-> [ran |-> TRUE, read |-> TRUE, input |-> file.content,
                               wrote |-> TRUE, caught |-> FALSE, propagated |-> FALSE]]

AfterEmit ==
    /\ pc = "written"
    /\ disk' = AfterEmitResult.disk
    /\ log' = AfterEmitResult.log
    /\ finalize' = AfterEmitResult.finalize
    /\ pc' = "finalized"
    /\ builds' = builds + 1
    /\ UNCHANGED <<options, version, jsFileHash, cssFileHash, injectScriptContent,
                   injectStyleContent, assets, templates, hostHtml, reads>>

Next == StartBuild \/ Emit \/ HostWritesHtml \/ HostKeepsHtml \/ AfterEmit

Spec == Init /\ [][Next]_vars

(***************************************************************************)
(* Vocabulary of the properties.                                           *)
(***************************************************************************)
\* the afterEmit hook has just read the entry HTML, injected and written it back
Written == pc = "finalized" /\ finalize.wrote

\* the HTML the hook read and the HTML it wrote
HtmlIn == finalize.input
HtmlOut == disk.html.content

\* the text after the first replace (the one of <head>) of the selected mode
HeadInjected ==
    IF options.microApp
    THEN InlineHead(HtmlIn, version, options, injectStyleContent, injectScriptContent)
    ELSE LinkedHead(HtmlIn, version, options, cssFileHash, jsFileHash)

\* the text that took the place of the first <head> (it starts with <head>)
InsertedAtHead ==
    LET i == IndexOf(HtmlIn, HEAD)
    IN  SubSeq(HeadInjected, i, Len(HeadInjected) - (Len(HtmlIn) - i))

\* s with ins spliced in verbatim before position i
SpliceBefore(s, i, ins) == SubSeq(s, 1, i - 1) \o ins \o SubSeq(s, i, Len(s))

Hidden == options.hiddenDefaultNotification
Custom == Truthy(options.customNotificationHTML)

\* the emit hook of the current or of an earlier build has run
EmitHasRun == pc \in {"emitted", "written", "finalized"} \/ builds > 0

\* the assets of the current compilation that the plugin registered
Registered == DOMAIN assets \ DOMAIN HostAssets

IsStylePath(p) ==
    /\ Len(p) = 6
    /\ SubSeq(p, 1, 4) = <<DIRECTORY_NAME, "/", INJECT_STYLE_FILE_NAME, ".">>
    /\ p[6] = CSS_EXT

IsScriptPath(p) ==
    /\ Len(p) = 6
    /\ SubSeq(p, 1, 4) = <<DIRECTORY_NAME, "/", INJECT_SCRIPT_FILE_NAME, ".">>
    /\ p[6] = JS_EXT

C2_HeadInsertion ==
    Written /\ Contains(HtmlIn, <<HEAD>>) =>
        LET ins == InsertedAtHead
            stylesheet == Contains(ins, <<LINK_OPEN>>) \/ Contains(ins, <<STYLE_OPEN>>)
            script ==
                IF options.microApp
                THEN Contains(ins, <<SCRIPT_OPEN>> \o injectScriptContent \o <<SCRIPT_CLOSE>>)
                ELSE Contains(ins, <<SCRIPT_SRC_OPEN>> \o options.injectFileBase
                                   \o ScriptPath(jsFileHash) \o <<SCRIPT_SRC_CLOSE>>)
        IN  /\ stylesheet <=> (~Hidden /\ ~Custom)
            /\ script
            /\ Contains(ins, <<VERSION_OPEN>> \o version \o <<VERSION_CLOSE>>)

(***************************************************************************)
(* C2, the part that holds on every input: which elements the text         *)
(* inserted at <head> is made of is decided by the flags alone.  What is   *)
(* put between their tags goes through the replacement patterns (see C7).  *)
(***************************************************************************)
C2_ElementsByFlags ==
    Written /\ Contains(HtmlIn, <<HEAD>>) =>
        LET ins == InsertedAtHead
            stylesheet == Contains(ins, <<LINK_OPEN>>) \/ Contains(ins, <<STYLE_OPEN>>)
        IN  /\ stylesheet <=> (~Hidden /\ ~Custom)
            /\ IF options.microApp THEN Contains(ins, <<SCRIPT_OPEN>>)
               ELSE Contains(ins, <<SCRIPT_SRC_OPEN>>)
            /\ Contains(ins, <<VERSION_OPEN>>)

(***************************************************************************)
(* C3.  The afterEmit hook applies exactly one injection, the one the      *)
(* microApp flag selects: with microApp the hook adds no stylesheet link   *)
(* and no script reference to the HTML (and, where there is a <head>, adds *)
(* the inline script); without microApp it adds no inline style and no     *)
(* inline script body (and, where there is a <head>, adds the script       *)
(* reference).                                                             *)
(***************************************************************************)
Added(tok) == Count(HtmlOut, <<tok>>) - Count(HtmlIn, <<tok>>)

HashedAssetsMatch ==
    \A p \in Registered :
        IsStylePath(p) \/ IsScriptPath(p) => p[5] = getFileHash(source(assets[p]))

C4_HashesMatchAlways ==
    EmitHasRun =>
        /\ HashedAssetsMatch
        /\ cssFileHash = getFileHash(injectStyleContent)
        /\ jsFileHash = getFileHash(injectScriptContent)

(***************************************************************************)
(* C4, amended.  Once the emit hook has run, every hash-suffixed asset the *)
(* plugin registered carries in its name the hash of what its source()     *)
(* returns, jsFileHash is the hash of injectScriptContent, and cssFileHash *)
(* is the hash of injectStyleContent when hiddenDefaultNotification is     *)
(* false; when it is true the stylesheet is never hashed: cssFileHash and  *)
(* injectStyleContent both stay empty.                                     *)
(***************************************************************************)
C4_HashesMatchUnlessHidden ==
    EmitHasRun =>
        /\ HashedAssetsMatch
        /\ jsFileHash = getFileHash(injectScriptContent)
        /\ ~Hidden => cssFileHash = getFileHash(injectStyleContent)
        /\ Hidden => cssFileHash = "" /\ injectStyleContent = <<>>

C4_Witness ==
    /\ pc = "emitted"
    /\ builds = 1
    /\ ~Hidden
    /\ StylePath(cssFileHash) \in Registered
    /\ ScriptPath(jsFileHash) \in Registered
    /\ Contains(injectScriptContent, version)

(***************************************************************************)
(* C5.  When the afterEmit hook runs and the entry HTML is absent,         *)
(* unreadable or unwritable, no exception leaves the hook, an error that   *)
(* names the resolved HTML path is logged, no HTML is written, and the     *)
(* registered and the written manifest, stylesheet and script stay as they *)
(* were.                                                                   *)
(***************************************************************************)
HtmlUnusable == ~disk.html.exists \/ disk.html.perm # "rw"

C5_MissingHtmlIsLogged ==
    [][pc = "written" /\ pc' = "finalized" /\ HtmlUnusable =>
          /\ ~finalize'.propagated
          /\ ~finalize'.wrote
          /\ Len(log') > Len(log)
          /\ SubSeq(log', 1, Len(log)) = log
          /\ \E i \in (Len(log) + 1)..Len(log') :
                Contains(log'[i], htmlFilePath(options))
          /\ disk' = disk
          /\ UNCHANGED <<assets, injectStyleContent, injectScriptContent,
                         cssFileHash, jsFileHash>>]_vars

C5_Witness ==
    /\ pc = "finalized"
    /\ ~disk.html.exists
    /\ finalize.caught
    /\ Len(log) = 2
    /\ JsonPath \in DOMAIN disk.assets
    /\ ScriptPath(jsFileHash) \in DOMAIN disk.assets

(***************************************************************************)
(* C6.  As claimed: when the afterEmit hook meets an entry HTML without a  *)
(* literal <head> or without a literal </body>, it reports a failure.      *)
(***************************************************************************)
C6_UnsupportedHtmlReported ==
    pc = "finalized" /\ finalize.read
    /\ (~Contains(HtmlIn, <<HEAD>>) \/ ~Contains(HtmlIn, <<BODY_CLOSE>>))
        => finalize.caught /\ log # <<>>

(***************************************************************************)
(* C7.  As claimed: in inline mode the body of the <style> block and the   *)
(* body of the <script> block of the written HTML are the content of the   *)
(* stylesheet asset and of the script asset of the same build, whatever    *)
(* that content is.                                                        *)
(***************************************************************************)
C7_InlineBodiesVerbatim ==
    Written /\ options.microApp /\ Contains(HtmlIn, <<HEAD>>) =>
        /\ Contains(HtmlOut, <<SCRIPT_OPEN>> \o source(assets[ScriptPath(jsFileHash)])
                             \o <<SCRIPT_CLOSE>>)
        /\ ~Hidden /\ ~Custom =>
              Contains(HtmlOut, <<STYLE_OPEN>> \o source(assets[StylePath(cssFileHash)])
                                \o <<STYLE_CLOSE>>)

(***************************************************************************)
(* C8.  As claimed: after any number of builds, whether or not the host    *)
(* rewrote the entry HTML in between, the entry HTML (of a host document   *)
(* with a <head>) holds exactly one plugin script, exactly one version     *)
(* assignment and at most one notification anchor.                         *)
(***************************************************************************)
PluginScripts(html) ==
    Count(html, <<SCRIPT_SRC_OPEN>>) + Count(html, <<SCRIPT_OPEN>>)

C8_RebuildIdempotent ==
    Written /\ Contains(hostHtml.content, <<HEAD>>) =>
        /\ PluginScripts(HtmlOut) = 1
        /\ Count(HtmlOut, <<VERSION_OPEN>>) = 1
        /\ Count(HtmlOut, AnchorHtml) <= 1

(***************************************************************************)
(* C8, the part that holds: whenever the hook reads the HTML as the host   *)
(* generated it, the written HTML is the same whatever the number of       *)
(* builds before, and holds one plugin script and one version assignment.  *)
(***************************************************************************)
C8_SameFromOriginalHtml ==
    Written /\ HtmlIn = hostHtml.content =>
        /\ HtmlOut = Inject(hostHtml.content)
        /\ Contains(HtmlIn, <<HEAD>>) =>
              /\ PluginScripts(HtmlOut) = 1
              /\ Count(HtmlOut, <<VERSION_OPEN>>) = 1
              /\ Count(HtmlOut, AnchorHtml) <= 1

(***************************************************************************)
(* C9.  After the emit hook, the plugin has registered the manifest at its *)
(* fixed path, the script at a hash-suffixed .js path and, exactly when    *)
(* hiddenDefaultNotification is false, the stylesheet at a hash-suffixed   *)
(* .css path, and nothing else; when it is true the stylesheet template is *)
(* not read.                                                               *)
(***************************************************************************)
C9_RegisteredArtifacts ==
    pc = "emitted" =>
        /\ JsonPath \in Registered
        /\ Cardinality({p \in Registered : IsScriptPath(p) /\ p[5] # ""}) = 1
        /\ Cardinality({p \in Registered : IsStylePath(p) /\ p[5] # ""})
              = IF Hidden THEN 0 ELSE 1
        /\ Cardinality(Registered) = IF Hidden THEN 2 ELSE 3
        /\ StyleTemplatePath \in reads <=> ~Hidden
        /\ ScriptTemplatePath \in reads

C9_Witness ==
    /\ pc = "emitted"
    /\ Hidden
    /\ options.microApp
    /\ Custom
    /\ Cardinality(Registered) = 2

(***************************************************************************)
(* C10.  In linked mode every stylesheet href and script src of the        *)
(* written HTML is injectFileBase followed by the path of an asset that    *)
(* the emit hook of the same build registered, and no stylesheet link is   *)
(* written when no stylesheet was registered (cssFileHash is then empty).  *)
(***************************************************************************)
\* the tokens of html from position i + 1 up to the first closing token after i
UrlAt(html, i, closing) ==
    LET ends == {j \in (i + 1)..Len(html) : html[j] = closing}
    IN  IF ends = {} THEN SubSeq(html, i + 1, Len(html))
        ELSE SubSeq(html, i + 1, Min(ends) - 1)

StripBase(url) ==
    LET n == Len(options.injectFileBase)
    IN  IF Len(url) >= n /\ SubSeq(url, 1, n) = options.injectFileBase
        THEN SubSeq(url, n + 1, Len(url))
        ELSE <<"no injectFileBase prefix">>

C10_LinkedUrlsRegistered ==
    Written /\ ~options.microApp =>
        /\ \A i \in Occurrences(<<LINK_OPEN>>, HtmlOut) :
              LET path == StripBase(UrlAt(HtmlOut, i, LINK_CLOSE))
              IN  IsStylePath(path) /\ path[5] # "" /\ path \in Registered
        /\ \A i \in Occurrences(<<SCRIPT_SRC_OPEN>>, HtmlOut) :
              LET path == StripBase(UrlAt(HtmlOut, i, SCRIPT_SRC_CLOSE))
              IN  IsScriptPath(path) /\ path[5] # "" /\ path \in Registered
        /\ Hidden => cssFileHash = "" /\ ~Contains(HtmlOut, <<LINK_OPEN>>)

C10_Witness ==
    /\ Written
    /\ ~options.microApp
    /\ Contains(HtmlOut, <<LINK_OPEN>> \o options.injectFileBase \o StylePath(cssFileHash)
                         \o <<LINK_CLOSE>>)
    /\ Contains(HtmlOut, <<SCRIPT_SRC_OPEN>> \o options.injectFileBase
                         \o ScriptPath(jsFileHash) \o <<SCRIPT_SRC_CLOSE>>)

====
